---- MODULE Spec2Model ----
(***************************************************************************)
(* A model of the board-game engine of src/src/game.py: Player, Property,  *)
(* Board, Game (setup, should_run, move_player, execute_player_turn,       *)
(* on_player_bankrupt, finish, run) and the batch loop of run_simulation.  *)
(*                                                                         *)
(* Python objects are modelled by identity: a player is an integer id, a   *)
(* property is an index of the board, and a list object is a key of        *)
(* `lists`; Game.players and Game.active_players hold such keys, so that   *)
(* two attributes naming the same list object see each other's changes.    *)
(***************************************************************************)
EXTENDS Integers, Sequences, FiniteSets, TLC

\* ------------------------------------------------------------------ bounds

\* Game.MAX_ROUNDS is 1000 in the source (game.py:104); the model runs the
\* same loop with a small limit.
MAX_ROUNDS == 3

\* run_simulation runs 300 games (game.py:195); the model runs this many.
ITERATIONS_TO_RUN == 2

\* The largest dice value handed to move_player when it is called on its own.
MaxMoveRoll == 19

\* ------------------------------------------------------- program constants

\* Game.INITIAL_AMOUNT (game.py:105), which setup() assigns, and the equal
\* Player.INITIAL_AMOUNT (game.py:37), which Player.__init__ assigns.
INITIAL_AMOUNT == 300

PRIZE_ON_ROUND_COMPLETION == 100

\* Board.MIN_PROP_PRICE and Board.MAX_PROP_PRICE, the ends of the range
\* Board.__init__ draws the prices from.
MIN_PROP_PRICE == 100

MAX_PROP_PRICE == 250

\* Python's None, where a player or a list is expected (players and list keys
\* are positive).
None == 0

\* No exception was raised.
NoError == "none"

\* move_player has not been called on its own.
NoCall == [called |-> FALSE, position |-> 0, dice_value |-> 0, amount |-> 0, calls |-> 0]

\* setup() has not been called.
NotSetUp == [amount |-> <<>>, position |-> <<>>]

\* No method of Player has been called on its own.
NoReturn == [raised |-> NoError, value |-> FALSE]

\* The players run_simulation builds for a game, by strategy, in its order.
SimulationRoster == <<"impulsive", "picky", "cautious", "random">>

\* The rosters a game is built with: the strategies of its players, in the
\* order of the list handed to Game.
Rosters == { <<"impulsive", "random">>,
             <<"impulsive", "picky", "random">>,
             <<"impulsive", "cautious", "random">> }

\* The values Dice.roll returns. The source draws from 1..6 on a board of 20
\* properties; the model's dice has two faces, for a board of four.
DiceFaces == {1, 2}

\* The boards a game is played on: the prices of the properties, in order.
Boards == { <<100, 300, 300, 100>> }

\* The boards move_player is called on when it is called on its own: the
\* board of PROP_COUNT properties and the short board of the tests.
MoveBoards == { [i \in 1..20 |-> 100], [i \in 1..10 |-> 100] }

VARIABLES
    price,          \* Board.properties[i].price, i in 1..property_count
    owner,          \* Board.properties[i].owner
    amount,         \* Player.amount
    position,       \* Player.position
    should_buy,     \* Player._should_buy: the name of the strategy
    lists,          \* the list objects: key -> sequence of players
    players,        \* Game.players: a key of lists
    active_players, \* Game.active_players: a key of lists, None before setup
    round,          \* Game.round
    timeout,        \* Game.timeout
    winner,         \* Game.winner
    pc,             \* where the program stands in Game.run / run_simulation
    it,             \* the index of the for loop's list iterator (1-based)
    game,           \* the iteration of run_simulation's loop (1-based)
    setup_order,    \* history: the players list as setup() left it
    round_start,    \* history: the active players when the round's pass began
    turns,          \* history: the players that took a turn in this round
    removals,       \* history: how often each player was removed on bankruptcy
    last_call,      \* history: the last direct call of move_player
    returned,       \* history: what the last direct call of a Player method returned or raised
    setup_found,    \* history: the amounts and positions setup() found
    found_owner     \* history: the owner the last turn found on the property it ended on

vars == <<price, owner, amount, position, should_buy, lists, players, active_players,
          round, timeout, winner, pc, it, game, setup_order, round_start,
          turns, removals, last_call, returned, setup_found, found_owner>>

\* ----------------------------------------------------------------- helpers

Range(s) == { s[i] : i \in 1..Len(s) }

\* list.index(x): the first index holding x (0 when absent, where Python raises).
Index(s, x) ==
    IF x \in Range(s) THEN CHOOSE i \in 1..Len(s) : s[i] = x /\ \A j \in 1..(i-1) : s[j] # x
    ELSE 0

\* list.remove(x): the list without the first occurrence of x.
Remove(s, x) ==
    LET k == Index(s, x)
    IN  IF k = 0 THEN s ELSE SubSeq(s, 1, k - 1) \o SubSeq(s, k + 1, Len(s))

\* random.shuffle: every ordering of the list is a possible outcome.
Shuffles(s) ==
    LET n == Len(s)
        bij == { f \in [1..n -> 1..n] : \A i, j \in 1..n : f[i] = f[j] => i = j }
    IN  { [i \in 1..n |-> s[f[i]]] : f \in bij }

\* ---------------------------------------------------------------- Property

\* A rent of a third of the price.
RentOfAThird(pr) == pr \div 3

\* Property.__init__: rent = int(0.1 * price).
Rent(pr) == pr \div 10

IsAvailable(own, t) == own[t] = None

\* ------------------------------------------------------------------ Player

\* bankrupt as "nothing left".
BankruptAtZero(amt) == amt <= 0

Bankrupt(amt) == amt < 0

HasAmountToBuy(amt, pr) == amt >= pr

\* Strategies with a cautious player that wants more than 80 left.
ShouldBuyLeavingMoreThan80(s, amt, pr, choice) ==
    CASE s = "impulsive" -> TRUE
      [] s = "picky"     -> Rent(pr) > 50
      [] s = "cautious"  -> amt - pr > 80
      [] s = "random"    -> choice

\* Strategies: the decision of strategy s; choice is rd.choice([True, False]).
ShouldBuy(s, amt, pr, choice) ==
    CASE s = "impulsive" -> TRUE
      [] s = "picky"     -> Rent(pr) > 50
      [] s = "cautious"  -> amt - pr >= 80
      [] s = "random"    -> choice

\* buy testing the amount before the availability.
BuyTestingTheAmountFirst(amt, own, p, t) ==
    IF ~HasAmountToBuy(amt[p], price[t])
    THEN [amount |-> amt, owner |-> own, error |-> "Player does not have enough amount"]
    ELSE IF ~IsAvailable(own, t)
    THEN [amount |-> amt, owner |-> own, error |-> "Property is not available"]
    ELSE [amount |-> [amt EXCEPT ![p] = @ - price[t]],
          owner  |-> [own EXCEPT ![t] = p],
          error  |-> NoError]

\* Player.buy on property t: the new amounts and owners, or the error raised.
Buy(amt, own, p, t) ==
    IF ~IsAvailable(own, t)
    THEN [amount |-> amt, owner |-> own, error |-> "Property is not available"]
    ELSE IF ~HasAmountToBuy(amt[p], price[t])
    THEN [amount |-> amt, owner |-> own, error |-> "Player does not have enough amount"]
    ELSE [amount |-> [amt EXCEPT ![p] = @ - price[t]],
          owner  |-> [own EXCEPT ![t] = p],
          error  |-> NoError]

\* pay_rent with both amounts read before either is written.
PayRentFromTheAmountsReadFirst(amt, own, p, t) ==
    LET credited == [amt EXCEPT ![own[t]] = @ + Rent(price[t])]
    IN  [credited EXCEPT ![p] = amt[p] - Rent(price[t])]

\* pay_rent handing over no more than the payer has.
PayRentWhatThePayerHas(amt, own, p, t) ==
    LET due  == Rent(price[t])
        paid == IF amt[p] >= due THEN due ELSE IF amt[p] > 0 THEN amt[p] ELSE 0
        credited == [amt EXCEPT ![own[t]] = @ + paid]
    IN  [credited EXCEPT ![p] = @ - due]

\* Player.pay_rent on property t: the owner is credited, then the payer debited.
PayRent(amt, own, p, t) ==
    LET credited == [amt EXCEPT ![own[t]] = @ + Rent(price[t])]
    IN  [credited EXCEPT ![p] = @ - Rent(price[t])]

\* -------------------------------------------------------------------- Game

PropertyCount == Len(price)

OnPlayerRoundCompletion(amt) == amt + PRIZE_ON_ROUND_COMPLETION

RECURSIVE RoundCompletions(_, _)
RoundCompletions(amt, n) ==
    IF n <= 0 THEN amt ELSE RoundCompletions(OnPlayerRoundCompletion(amt), n - 1)

\* move_player with the number of prizes computed from the position the
\* player moved from.
MovePlayerLapsFromOldPosition(pos, amt, d) ==
    IF pos + d >= PropertyCount
    THEN LET calls == (pos + d) \div PropertyCount
         IN  [position |-> (pos + d) % PropertyCount,
              amount |-> RoundCompletions(amt, calls), calls |-> calls]
    ELSE [position |-> pos + d, amount |-> amt, calls |-> 0]

\* move_player stepping back by one board length when the end is passed.
MovePlayerWrappingOnce(pos, amt, d) ==
    IF pos + d >= PropertyCount
    THEN LET wrapped == pos + d - PropertyCount
             calls   == ((wrapped + d) \div PropertyCount) + 1
         IN  [position |-> wrapped, amount |-> RoundCompletions(amt, calls), calls |-> calls]
    ELSE [position |-> pos + d, amount |-> amt, calls |-> 0]

\* Game.move_player: the position is wrapped first, and the number of prizes
\* is computed from the wrapped position.
MovePlayer(pos, amt, d) ==
    IF pos + d >= PropertyCount
    THEN LET wrapped == (pos + d) % PropertyCount
             calls   == ((wrapped + d) \div PropertyCount) + 1
         IN  [position |-> wrapped, amount |-> RoundCompletions(amt, calls), calls |-> calls]
    ELSE [position |-> pos + d, amount |-> amt, calls |-> 0]

\* execute_player_turn buying whenever the strategy says yes.
ExecutePlayerTurnAskingOnlyTheStrategy(amt, own, p, pos, choice) ==
    LET t == pos + 1
    IN  IF IsAvailable(own, t)
        THEN IF ShouldBuy(should_buy[p], amt[p], price[t], choice)
             THEN Buy(amt, own, p, t)
             ELSE [amount |-> amt, owner |-> own, error |-> NoError]
        ELSE [amount |-> PayRent(amt, own, p, t), owner |-> own, error |-> NoError]

\* Game.execute_player_turn of player p standing on position pos.
ExecutePlayerTurn(amt, own, p, pos, choice) ==
    LET t == pos + 1
    IN  IF IsAvailable(own, t)
        THEN IF HasAmountToBuy(amt[p], price[t]) /\ ShouldBuy(should_buy[p], amt[p], price[t], choice)
             THEN Buy(amt, own, p, t)
             ELSE [amount |-> amt, owner |-> own, error |-> NoError]
        ELSE [amount |-> PayRent(amt, own, p, t), owner |-> own, error |-> NoError]

\* on_player_bankrupt without the board scan.
ClearNoOwner(own, p) == own

\* A board scan that forgets the comparison with the player.
ClearEveryOwner(own, p) == [t \in DOMAIN own |-> None]

\* Game.on_player_bankrupt: the owners after the board scan.
ClearOwner(own, p) == [t \in DOMAIN own |-> IF own[t] = p THEN None ELSE own[t]]

\* should_run without the round limit.
ShouldRunWhileSeveralPlay(n, r) == n # 1

\* should_run stopping only when no player is left.
ShouldRunUntilEmpty(n, r) ==
    IF n = 0 THEN FALSE
    ELSE IF r >= MAX_ROUNDS THEN FALSE
    ELSE TRUE

\* Game.should_run: the value returned.
ShouldRun(n, r) ==
    IF n = 1 THEN FALSE
    ELSE IF r >= MAX_ROUNDS THEN FALSE
    ELSE TRUE

\* should_run testing the round limit first.
SetsTimeoutWhateverThePlayers(n, r) == r >= MAX_ROUNDS

\* Game.should_run: whether it sets timeout.
SetsTimeout(n, r) == n # 1 /\ r >= MAX_ROUNDS

\* A descending sort that reverses the players of equal amount: the ascending
\* stable sort, reversed.
RECURSIVE InsertReversingTies(_, _, _)
InsertReversingTies(s, x, amt) ==
    IF s = <<>> THEN <<x>>
    ELSE IF amt[Head(s)] > amt[x] THEN <<Head(s)>> \o InsertReversingTies(Tail(s), x, amt)
    ELSE <<x>> \o s

RECURSIVE SortReversingTies(_, _)
SortReversingTies(s, amt) ==
    IF s = <<>> THEN <<>>
    ELSE InsertReversingTies(SortReversingTies(SubSeq(s, 1, Len(s) - 1), amt), s[Len(s)], amt)

\* list.sort(key=amount, reverse=True): stable, so players of equal amount
\* keep the order they had. One insertion: x goes behind every element whose
\* key is at least its own.
RECURSIVE InsertDesc(_, _, _)
InsertDesc(s, x, amt) ==
    IF s = <<>> THEN <<x>>
    ELSE IF amt[Head(s)] >= amt[x] THEN <<Head(s)>> \o InsertDesc(Tail(s), x, amt)
    ELSE <<x>> \o s

RECURSIVE SortByAmountDesc(_, _)
SortByAmountDesc(s, amt) ==
    IF s = <<>> THEN <<>>
    ELSE InsertDesc(SortByAmountDesc(SubSeq(s, 1, Len(s) - 1), amt), s[Len(s)], amt)

\* tied_players.sort(key=players.index): ascending and stable.
RECURSIVE InsertByIndex(_, _, _)
InsertByIndex(s, x, ref) ==
    IF s = <<>> THEN <<x>>
    ELSE IF Index(ref, Head(s)) <= Index(ref, x) THEN <<Head(s)>> \o InsertByIndex(Tail(s), x, ref)
    ELSE <<x>> \o s

RECURSIVE SortByIndex(_, _)
SortByIndex(s, ref) ==
    IF s = <<>> THEN <<>>
    ELSE InsertByIndex(SortByIndex(SubSeq(s, 1, Len(s) - 1), ref), s[Len(s)], ref)

\* ------------------------------------------------------------------- state

\* run_simulation has built the board and the first game's players and Game.
Init ==
    /\ price \in Boards
    /\ owner = [t \in 1..Len(price) |-> None]
    /\ \E roster \in Rosters :
          /\ should_buy = roster
          /\ amount = [p \in DOMAIN roster |-> INITIAL_AMOUNT]
          /\ position = [p \in DOMAIN roster |-> 0]
          /\ lists = <<[i \in DOMAIN roster |-> i]>>
          /\ removals = [p \in DOMAIN roster |-> 0]
    /\ players = 1
    /\ active_players = None
    /\ round = 0
    /\ timeout = FALSE
    /\ winner = None
    /\ pc = "setup"
    /\ it = 1
    /\ game = 1
    /\ setup_order = <<>>
    /\ round_start = <<>>
    /\ turns = <<>>
    /\ last_call = NoCall
    /\ returned = NoReturn
    /\ setup_found = NotSetUp
    /\ found_owner = None

\* A setup that leaves the players what they have.
KeepWhatThePlayersHave(f, ps, v) == f

\* The loop of Game.setup: attribute f of the players ps is set to v.
ResetPlayers(f, ps, v) == [p \in DOMAIN f |-> IF p \in ps THEN v ELSE f[p]]

\* Game.setup.
Setup ==
    /\ pc = "setup"
    /\ \E order \in Shuffles(lists[players]) :
          /\ lists' = [lists EXCEPT ![players] = order]
          /\ setup_order' = order
    /\ amount' = ResetPlayers(amount, Range(lists[players]), INITIAL_AMOUNT)
    /\ position' = ResetPlayers(position, Range(lists[players]), 0)
    /\ active_players' = players
    /\ winner' = None
    /\ pc' = "while"
    /\ setup_found' = [amount |-> amount, position |-> position]
    /\ UNCHANGED <<price, should_buy, owner, players, round, timeout, it, game,
                   round_start, turns, removals, last_call, returned, found_owner>>

\* The test of the while loop of Game.run: should_run().
While ==
    /\ pc = "while"
    /\ LET n == Len(lists[active_players])
       IN  /\ timeout' = IF SetsTimeout(n, round) THEN TRUE ELSE timeout
           /\ IF ShouldRun(n, round)
              THEN /\ pc' = "for"
                   /\ it' = 1
                   /\ round_start' = lists[active_players]
                   /\ turns' = <<>>
              ELSE /\ pc' = "finish"
                   /\ UNCHANGED <<it, round_start, turns>>
    /\ UNCHANGED <<price, should_buy, owner, amount, position, lists, players, active_players,
                   round, winner, game, setup_order, removals, last_call, returned, setup_found, found_owner>>

\* One pass of the body of the for loop of Game.run: the iterator yields the
\* element at its index, the player rolls, moves, resolves the property and
\* is removed when bankrupt.
Turn ==
    /\ pc = "for"
    /\ it <= Len(lists[active_players])
    /\ \E d \in DiceFaces, choice \in BOOLEAN :
          LET p     == lists[active_players][it]
              moved == MovePlayer(position[p], amount[p], d)
              amt1  == [amount EXCEPT ![p] = moved.amount]
              res   == ExecutePlayerTurn(amt1, owner, p, moved.position, choice)
          IN  /\ position' = [position EXCEPT ![p] = moved.position]
              /\ amount' = res.amount
              /\ turns' = Append(turns, p)
              /\ found_owner' = owner[moved.position + 1]
              /\ it' = it + 1
              /\ IF res.error # NoError
                 THEN /\ pc' = "error"
                      /\ UNCHANGED <<owner, lists, removals>>
                 ELSE /\ pc' = "for"
                      /\ IF Bankrupt(res.amount[p])
                         THEN /\ lists' = [lists EXCEPT ![active_players] = Remove(@, p)]
                              /\ owner' = ClearOwner(res.owner, p)
                              /\ removals' = [removals EXCEPT ![p] = @ + 1]
                         ELSE /\ owner' = res.owner
                              /\ UNCHANGED <<lists, removals>>
    /\ UNCHANGED <<price, should_buy, players, active_players, round, timeout, winner, game,
                   setup_order, round_start, last_call, returned, setup_found>>

\* The for loop's iterator is exhausted: round += 1.
EndRound ==
    /\ pc = "for"
    /\ it > Len(lists[active_players])
    /\ round' = round + 1
    /\ pc' = "while"
    /\ UNCHANGED <<price, should_buy, owner, amount, position, lists, players, active_players,
                   timeout, winner, it, game, setup_order, round_start, turns,
                   removals, last_call, returned, setup_found, found_owner>>

\* finish naming the player the setup order puts first.
FinishWithTheFirstOfTheSetupOrder ==
    /\ pc = "finish"
    /\ winner' = setup_order[1]
    /\ pc' = "done"
    /\ UNCHANGED <<price, should_buy, owner, amount, position, lists, players, active_players,
                   round, timeout, it, game, setup_order, round_start, turns, removals,
                   last_call, returned, setup_found, found_owner>>

\* Game.finish.
Finish ==
    /\ pc = "finish"
    /\ LET act == lists[active_players]
       IN  IF Len(act) = 1
           THEN /\ winner' = act[1]
                /\ pc' = "done"
                /\ UNCHANGED lists
           ELSE IF Len(act) = 0
           THEN /\ pc' = "error"
                /\ UNCHANGED <<winner, lists>>
           ELSE LET sorted == SortByAmountDesc(act, amount)
                    after  == [lists EXCEPT ![active_players] = sorted]
                    tied   == SelectSeq(sorted, LAMBDA q : amount[q] = amount[sorted[1]])
                IN  /\ lists' = after
                    /\ pc' = "done"
                    /\ winner' = IF amount[sorted[1]] = amount[sorted[2]]
                                 THEN SortByIndex(tied, after[players])[1]
                                 ELSE sorted[1]
    /\ UNCHANGED <<price, should_buy, owner, amount, position, players, active_players, round,
                   timeout, it, game, setup_order, round_start, turns, removals,
                   last_call, returned, setup_found, found_owner>>

Next == Setup \/ While \/ Turn \/ EndRound \/ Finish

\* One game, as Game.run plays it on a board no game was played on before.
Spec == Init /\ [][Next]_vars

\* ------------------------------------------------------------ run_simulation

\* The next iteration of run_simulation's loop: new players, one per strategy
\* of the roster, and a new Game on the same board. The finished games stay in
\* the list `games`; only their number is modelled, the report is not.
NextGame ==
    /\ pc = "done"
    /\ game < ITERATIONS_TO_RUN
    /\ LET roster == [i \in 1..Len(lists[1]) |-> should_buy[i]]
           base   == Len(should_buy)
           fresh  == [i \in DOMAIN roster |-> base + i]
       IN  /\ should_buy' = should_buy \o roster
           /\ amount' = amount \o [i \in DOMAIN roster |-> INITIAL_AMOUNT]
           /\ position' = position \o [i \in DOMAIN roster |-> 0]
           /\ removals' = removals \o [i \in DOMAIN roster |-> 0]
           /\ lists' = Append(lists, fresh)
           /\ players' = Len(lists) + 1
    /\ active_players' = None
    /\ winner' = None
    /\ round' = 0
    /\ timeout' = FALSE
    /\ game' = game + 1
    /\ pc' = "setup"
    /\ it' = 1
    /\ setup_order' = <<>>
    /\ round_start' = <<>>
    /\ turns' = <<>>
    /\ found_owner' = None
    /\ UNCHANGED <<price, owner, last_call, returned, setup_found>>

NextSim == Next \/ NextGame

\* run_simulation with the smallest roster: the later games start from every
\* state an earlier game can leave the board in.
InitSim == Init /\ Len(should_buy) = 2

\* The games of run_simulation, one after another on the same board.
SpecSim == InitSim /\ [][NextSim]_vars

\* One game of the smallest roster, run to its end. Game.run is sequential
\* code: the statement the program stands at is executed, so a step that can
\* be taken is taken.
SpecFair == InitSim /\ [][Next]_vars /\ WF_vars(Next)

\* ------------------------------------------------- move_player on its own

\* A game of the tests' four players, one of them placed on any position of
\* the board, before move_player is called for it.
InitMove ==
    /\ price \in MoveBoards
    /\ owner = [t \in 1..Len(price) |-> None]
    /\ should_buy = SimulationRoster
    /\ amount = [p \in DOMAIN SimulationRoster |-> INITIAL_AMOUNT]
    /\ position \in { [p \in DOMAIN SimulationRoster |-> IF p = 1 THEN q ELSE 0] :
                        q \in 0..(Len(price) - 1) }
    /\ lists = <<[i \in DOMAIN SimulationRoster |-> i]>>
    /\ removals = [p \in DOMAIN SimulationRoster |-> 0]
    /\ players = 1
    /\ active_players = None
    /\ round = 0
    /\ timeout = FALSE
    /\ winner = None
    /\ pc = "move"
    /\ it = 1
    /\ game = 1
    /\ setup_order = <<>>
    /\ round_start = <<>>
    /\ turns = <<>>
    /\ last_call = NoCall
    /\ returned = NoReturn
    /\ setup_found = NotSetUp
    /\ found_owner = None

\* game.move_player(p1, dice_value), as the tests call it.
MoveCall ==
    /\ pc = "move"
    /\ \E d \in 1..MaxMoveRoll :
          LET moved == MovePlayer(position[1], amount[1], d)
          IN  /\ position' = [position EXCEPT ![1] = moved.position]
              /\ amount' = [amount EXCEPT ![1] = moved.amount]
              /\ last_call' = [called |-> TRUE, position |-> position[1],
                               dice_value |-> d, amount |-> amount[1],
                               calls |-> moved.calls]
    /\ pc' = "moved"
    /\ UNCHANGED <<price, owner, should_buy, lists, players, active_players, round,
                   timeout, winner, it, game, setup_order, round_start, turns,
                   removals, returned, setup_found, found_owner>>

NextMove == MoveCall

SpecMove == InitMove /\ [][NextMove]_vars

\* ------------------------------------------- the methods of Player on their own

\* The strategies of Strategies.
StrategyNames == {"impulsive", "picky", "cautious", "random"}

\* The prices of the property a method of Player is called with.
PlayerPrices == {50, 100, 220, 221, 500, 510, 520}

\* The amounts of the player a method of Player is called on.
PlayerAmounts == {0, 99, 100, 300, 301}

\* Player 1 of any strategy and amount, another player, and one property of
\* any price that is unowned, owned by the other player or owned by player 1,
\* before a method of player 1 is called with the property.
InitPlayer ==
    /\ price \in { <<pr>> : pr \in PlayerPrices }
    /\ owner \in { <<None>>, <<1>>, <<2>> }
    /\ should_buy \in { <<s, "impulsive">> : s \in StrategyNames }
    /\ amount \in { <<a, INITIAL_AMOUNT>> : a \in PlayerAmounts }
    /\ position = <<0, 0>>
    /\ lists = << <<1, 2>> >>
    /\ removals = <<0, 0>>
    /\ players = 1
    /\ active_players = None
    /\ round = 0
    /\ timeout = FALSE
    /\ winner = None
    /\ pc = "call"
    /\ it = 1
    /\ game = 1
    /\ setup_order = <<>>
    /\ round_start = <<>>
    /\ turns = <<>>
    /\ last_call = NoCall
    /\ returned = NoReturn
    /\ setup_found = NotSetUp
    /\ found_owner = None

\* p1.buy(property), as the tests call it.
BuyCall ==
    /\ pc = "call"
    /\ LET res == Buy(amount, owner, 1, 1)
       IN  /\ amount' = res.amount
           /\ owner' = res.owner
           /\ returned' = [raised |-> res.error, value |-> FALSE]
    /\ pc' = "bought"
    /\ UNCHANGED <<price, position, should_buy, lists, players, active_players, round,
                   timeout, winner, it, game, setup_order, round_start, turns,
                   removals, last_call, setup_found, found_owner>>

\* p1.should_buy(property), as the tests call it.
ShouldBuyCall ==
    /\ pc = "call"
    /\ \E choice \in BOOLEAN :
          returned' = [raised |-> NoError,
                       value |-> ShouldBuy(should_buy[1], amount[1], price[1], choice)]
    /\ pc' = "asked"
    /\ UNCHANGED <<price, owner, amount, position, should_buy, lists, players,
                   active_players, round, timeout, winner, it, game, setup_order,
                   round_start, turns, removals, last_call, setup_found, found_owner>>

NextPlayer == BuyCall \/ ShouldBuyCall

SpecPlayer == InitPlayer /\ [][NextPlayer]_vars

\* --------------------------------------------- games on a board of Board()

\* Boards as Board.__init__ builds them: every price drawn from
\* MIN_PROP_PRICE..MAX_PROP_PRICE. The model draws the ends of the range,
\* for a board of four.
DefaultBoards == [1..4 -> {MIN_PROP_PRICE, MAX_PROP_PRICE}]

\* Rosters with a picky player, before and behind a player that buys.
PickyRosters == { <<"picky", "impulsive">>, <<"random", "picky">> }

\* run_simulation has built a board with Board() and a game of a roster
\* with a picky player.
InitDefault ==
    /\ price \in DefaultBoards
    /\ owner = [t \in 1..Len(price) |-> None]
    /\ \E roster \in PickyRosters :
          /\ should_buy = roster
          /\ amount = [p \in DOMAIN roster |-> INITIAL_AMOUNT]
          /\ position = [p \in DOMAIN roster |-> 0]
          /\ lists = <<[i \in DOMAIN roster |-> i]>>
          /\ removals = [p \in DOMAIN roster |-> 0]
    /\ players = 1
    /\ active_players = None
    /\ round = 0
    /\ timeout = FALSE
    /\ winner = None
    /\ pc = "setup"
    /\ it = 1
    /\ game = 1
    /\ setup_order = <<>>
    /\ round_start = <<>>
    /\ turns = <<>>
    /\ last_call = NoCall
    /\ returned = NoReturn
    /\ setup_found = NotSetUp
    /\ found_owner = None

\* One game on a board of the default price range.
SpecDefault == InitDefault /\ [][Next]_vars

\* ------------------------------------------------------- setup on its own

\* The amounts the players hold when the game is built with them.
SetupAmounts == {-10, 100, INITIAL_AMOUNT}

\* The positions the players hold when the game is built with them.
SetupPositions == {0, 3}

\* A game built with players of any amount and position, as the tests build
\* it, before setup() is called.
InitSetup ==
    /\ price \in Boards
    /\ owner = [t \in 1..Len(price) |-> None]
    /\ \E roster \in Rosters :
          /\ should_buy = roster
          /\ amount \in [DOMAIN roster -> SetupAmounts]
          /\ position \in [DOMAIN roster -> SetupPositions]
          /\ lists = <<[i \in DOMAIN roster |-> i]>>
          /\ removals = [p \in DOMAIN roster |-> 0]
    /\ players = 1
    /\ active_players = None
    /\ round = 0
    /\ timeout = FALSE
    /\ winner = None
    /\ pc = "setup"
    /\ it = 1
    /\ game = 1
    /\ setup_order = <<>>
    /\ round_start = <<>>
    /\ turns = <<>>
    /\ last_call = NoCall
    /\ returned = NoReturn
    /\ setup_found = NotSetUp
    /\ found_owner = None

NextSetup == Setup

SpecSetup == InitSetup /\ [][NextSetup]_vars

\* ------------------------------------------------------------------ claims

\* How often x occurs in s.
Count(s, x) == Cardinality({ i \in 1..Len(s) : s[i] = x })

\* C1: when a round's pass over active_players is over, every player that was
\* in active_players when the pass began has taken exactly one turn in it.
C1_EveryActiveAtRoundStartTakesOneTurn ==
    (pc = "for" /\ it > Len(lists[active_players]))
        => \A p \in Range(round_start) : Count(turns, p) = 1

\* C2: a direct call of move_player from position p with roll d on a board of
\* length L raises the player's amount by 100 * floor((p + d) / L), which is
\* nothing when p + d < L.
C2_PrizePerLapOfTheMove ==
    last_call.called
        => amount[1] = last_call.amount + PRIZE_ON_ROUND_COMPLETION
                          * ((last_call.position + last_call.dice_value) \div PropertyCount)

C3_Case ==
    /\ last_call.called
    /\ PropertyCount = 20
    /\ last_call.position = 9
    /\ last_call.dice_value = 19

\* C3: move_player for a player on position 9 with dice value 19 on a board of
\* 20 properties leaves the player on position 8 and awards the prize twice.
C3_Position9Dice19Board20 ==
    C3_Case => /\ position[1] = 8
               /\ last_call.calls = 2
               /\ amount[1] = last_call.amount + 2 * PRIZE_ON_ROUND_COMPLETION

C3_Witness == C3_Case /\ position[1] = 8

Active == Range(lists[active_players])

Stopped == pc \in {"finish", "done"}

\* The active players holding the largest amount among the active players.
Richest == { p \in Active : \A q \in Active : amount[q] <= amount[p] }

\* C4: after finish() the winner is the only active player, or else the one
\* of the richest active players that comes first in the order setup() left.
C4_WinnerIsRichestEarliestInSetupOrder ==
    pc = "done"
        => /\ winner \in Richest
           /\ \A q \in Richest : Index(setup_order, winner) <= Index(setup_order, q)

\* A finished game with two tied richest players, the winner not being the one
\* the roster names first, and a player it precedes in the setup order.
C4_Witness ==
    /\ pc = "done"
    /\ Cardinality(Active) >= 2
    /\ \E q \in Richest : q < winner /\ Index(setup_order, winner) < Index(setup_order, q)

\* C5: from setup() on, Game.players is the full roster in the order setup()
\* left it.
C5_PlayersKeepsTheSetupOrder ==
    pc \in {"while", "for", "finish", "done"} => lists[players] = setup_order

\* The players of the running game.
InGame == Range(setup_order)

C6_RemovedIffBankrupt ==
    pc \in {"while", "for", "finish", "done"}
        => \A p \in InGame :
              /\ (p \in Active) <=> (amount[p] >= 0)
              /\ removals[p] = IF amount[p] < 0 THEN 1 ELSE 0

C6_TurnsOnlyBySolventPlayers ==
    (pc = "for" /\ Len(turns') = Len(turns) + 1)
        => LET p == turns'[Len(turns')]
           IN  /\ p \in Active
               /\ amount[p] >= 0
               /\ removals[p] = 0
               /\ \A q \in InGame \ {p} :
                     /\ position'[q] = position[q]
                     /\ (q \in Active) <=> (q \in Range(lists'[active_players']))

\* C6: a player leaves active_players in the turn that makes its amount
\* negative, once, and no other way: at every turn boundary the active players
\* are the players of the game whose amount is not negative, each bankrupt
\* player was removed once, and a turn is taken only by a player that is
\* active and solvent and removes or re-adds no other player.
C6_RemovedOnceWhenBankrupt ==
    []C6_RemovedIffBankrupt /\ [][C6_TurnsOnlyBySolventPlayers]_vars

\* A player was removed in its turn, and another player took the next turn.
C6_Witness ==
    /\ pc = "for"
    /\ Len(turns) >= 2
    /\ removals[turns[Len(turns) - 1]] = 1
    /\ turns[Len(turns)] \in Active

\* C7: the step that removes bankrupt player p leaves no property owned by p
\* and keeps the owner of every property p did not own. (A player that goes
\* bankrupt has not bought in that turn, so the owners before the turn are the
\* owners on_player_bankrupt found.)
C7_BankruptcyClearsOnlyThePlayersProperties ==
    [][\A p \in DOMAIN removals :
          removals'[p] = removals[p] + 1
              => \A t \in DOMAIN owner :
                    /\ owner'[t] # p
                    /\ owner[t] # p => owner'[t] = owner[t]]_vars

\* A bankrupt player owns nothing (every player that goes bankrupt within the
\* bounds had bought a property) while another player still owns a property.
C7_Witness ==
    \E p \in DOMAIN removals :
        /\ removals[p] = 1
        /\ \A t \in DOMAIN owner : owner[t] # p
        /\ \E t \in DOMAIN owner : owner[t] # None

\* C8: when a game's first turn begins, every property of the board is unowned.
C8_NoOwnershipCarriedIntoAGame ==
    (pc = "for" /\ round = 0 /\ turns = <<>>)
        => \A t \in DOMAIN owner : owner[t] = None

\* C9: the test of the run loop lets the loop go on exactly when more than one
\* player is active and round < MAX_ROUNDS.
C9_ContinuesIffPlayersAndRoundsLeft ==
    [][pc = "while"
          => ((pc' = "for") <=> (Len(lists[active_players]) > 1 /\ round < MAX_ROUNDS))]_vars

\* The loop was left with rounds to go, because one player was left.
C9_Witness ==
    pc = "finish" /\ Len(lists[active_players]) = 1 /\ round < MAX_ROUNDS

\* C10 as stated: a stopped run has timeout set exactly when its round counter
\* equals MAX_ROUNDS.
C10_TimeoutIffRoundLimit ==
    Stopped => (timeout <=> round = MAX_ROUNDS)

\* C10, amended: a stopped run has timeout set exactly when its round counter
\* equals MAX_ROUNDS and more than one player is still active; timeout is not
\* set while the game runs.
C10_TimeoutIffRoundLimitWithSeveralActive ==
    /\ Stopped => (timeout <=> (round = MAX_ROUNDS /\ Cardinality(Active) > 1))
    /\ ~Stopped => ~timeout

\* A run that the last bankruptcy ended in the round that reached the limit.
C10_Witness ==
    Stopped /\ round = MAX_ROUNDS /\ Cardinality(Active) = 1 /\ ~timeout

C11_NoneUntilFinish ==
    pc \in {"setup", "while", "for", "finish"} => winner = None

C11_AssignedByFinishFromTheActivePlayers ==
    /\ winner' # winner => pc = "finish"
    /\ (pc = "finish" /\ pc' = "done")
          => /\ winner' \in Range(lists[active_players])
             /\ winner' \in Range(lists'[active_players'])

\* C11: winner is None in every state from the construction and setup() of
\* the game until finish() is executed; only finish() assigns it, and the
\* player it assigns is in active_players when finish() runs (and after it).
C11_WinnerSetOnlyByFinishToAnActivePlayer ==
    []C11_NoneUntilFinish /\ [][C11_AssignedByFinishFromTheActivePlayers]_vars

\* A game finished after a bankruptcy, its winner one of the players left.
C11_Witness ==
    /\ pc = "done"
    /\ winner \in Active
    /\ \E p \in InGame : p \notin Active

\* C12: every player's position p satisfies 0 <= p < property_count, and after
\* move_player has moved a player from position p with roll d the player's
\* position is (p + d) mod property_count.
C12_PositionOnTheBoardAndMovedByTheRoll ==
    /\ \A p \in DOMAIN position : 0 <= position[p] /\ position[p] < PropertyCount
    /\ last_call.called
          => position[1] = (last_call.position + last_call.dice_value) % PropertyCount

\* The position every player of a game holds is a position of the board.
C12_PositionOnTheBoardInAGame ==
    \A p \in DOMAIN position : position[p] \in 0..(PropertyCount - 1)

\* A move that passed the end of the board twice.
C12_Witness ==
    /\ last_call.called
    /\ last_call.position + last_call.dice_value >= 2 * PropertyCount
    /\ position[1] = (last_call.position + last_call.dice_value) % PropertyCount

C13_Unavailable == "Property is not available"

C13_InsufficientFunds == "Player does not have enough amount"

\* C13: buy raises 'Property is not available' whenever the property has an
\* owner, affordable or not; it raises 'Player does not have enough amount'
\* only when the property is unowned and the buyer's amount is below the
\* price (and always then); when it raises, the owner of the property and the
\* amount of the buyer are what they were.
C13_BuyFailsUnavailableFirstAndChangesNothing ==
    [][(pc = "call" /\ pc' = "bought")
          => /\ owner[1] # None => returned'.raised = C13_Unavailable
             /\ returned'.raised = C13_InsufficientFunds
                   <=> (owner[1] = None /\ amount[1] < price[1])
             /\ returned'.raised # NoError => (owner' = owner /\ amount' = amount)
             /\ returned'.raised \in {NoError, C13_Unavailable, C13_InsufficientFunds}]_vars

\* buy was refused for a property of another player that the buyer could pay.
C13_Witness ==
    /\ pc = "bought"
    /\ returned.raised = C13_Unavailable
    /\ owner[1] = 2
    /\ amount[1] >= price[1]

\* buy was refused for an unowned property the buyer could not pay.
C13_WitnessInsufficient ==
    /\ pc = "bought"
    /\ returned.raised = C13_InsufficientFunds
    /\ owner[1] = None
    /\ amount[1] < price[1]

\* C19: the strategy impulsive answers yes for every amount and price, picky
\* (the strategy the tests call demanding) answers yes exactly when the rent
\* of the property is above 50, cautious answers yes exactly when the amount
\* of the player less the price of the property is at least 80; the call
\* changes neither the player nor the property.
C19_DeterministicStrategies ==
    [][(pc = "call" /\ pc' = "asked")
          => /\ should_buy[1] = "impulsive" => returned'.value = TRUE
             /\ should_buy[1] = "picky" => (returned'.value <=> Rent(price[1]) > 50)
             /\ should_buy[1] = "cautious" => (returned'.value <=> amount[1] - price[1] >= 80)
             /\ returned'.raised = NoError
             /\ amount' = amount /\ position' = position /\ should_buy' = should_buy
             /\ price' = price /\ owner' = owner]_vars

\* The cautious player said yes to a purchase that leaves it exactly 80.
C19_Witness ==
    /\ pc = "asked"
    /\ should_buy[1] = "cautious"
    /\ amount[1] - price[1] = 80
    /\ returned.value

\* The picky player said no to a rent of exactly 50.
C19_WitnessPicky ==
    /\ pc = "asked"
    /\ should_buy[1] = "picky"
    /\ Rent(price[1]) = 50
    /\ ~returned.value

\* C14: in a turn that ends on a property owned by another player, the amount
\* the player holds after the move goes down by the rent of the property and
\* the amount of the owner goes up by the rent, whether or not the player
\* holds as much as the rent; no third player's amount changes.
C14_RentPaidInFullToTheOwner ==
    [][(pc = "for" /\ Len(turns') = Len(turns) + 1)
          => LET p == turns'[Len(turns')]
                 t == position'[p] + 1
                 o == owner[t]
             IN  (o # None /\ o # p)
                    => /\ amount'[o] = amount[o] + Rent(price[t])
                       /\ \E d \in DiceFaces :
                             LET moved == MovePlayer(position[p], amount[p], d)
                             IN  /\ moved.position = position'[p]
                                 /\ amount'[p] = moved.amount - Rent(price[t])
                       /\ \A q \in DOMAIN amount \ {p, o} : amount'[q] = amount[q]]_vars

\* The player of the last turn paid a rent larger than the amount it held, to
\* an owner that is still in the game.
C14_Witness ==
    /\ pc = "for"
    /\ turns # <<>>
    /\ LET p == turns[Len(turns)]
           t == position[p] + 1
       IN  /\ amount[p] < 0
           /\ amount[p] + Rent(price[t]) >= 0
           /\ \E o \in Active : amount[o] > INITIAL_AMOUNT

\* The answers the strategy of player p can give for amount a and price pr.
C15_Answers(p, a, pr) == { ShouldBuy(should_buy[p], a, pr, choice) : choice \in BOOLEAN }

C15_Resolution ==
    (pc = "for" /\ Len(turns') = Len(turns) + 1)
        => LET p == turns'[Len(turns')]
               t == position'[p] + 1
           IN  \E d \in DiceFaces :
                 LET moved == MovePlayer(position[p], amount[p], d)
                     a     == moved.amount
                     bought == owner'[t] = p /\ owner[t] # p
                 IN  /\ moved.position = position'[p]
                     /\ \A u \in DOMAIN owner \ {t} : owner'[u] # p \/ owner[u] = p
                     /\ owner[t] = None
                           => /\ bought => /\ a >= price[t]
                                           /\ TRUE \in C15_Answers(p, a, price[t])
                                           /\ amount' = [amount EXCEPT ![p] = a - price[t]]
                                           /\ owner' = [owner EXCEPT ![t] = p]
                              /\ ~bought => /\ a < price[t] \/ FALSE \in C15_Answers(p, a, price[t])
                                            /\ amount' = [amount EXCEPT ![p] = a]
                                            /\ owner' = owner
                     /\ owner[t] # None
                           => /\ ~bought
                              /\ amount' = PayRent([amount EXCEPT ![p] = a], owner, p, t)

C15_WitnessDeclined ==
    /\ pc = "for"
    /\ turns # <<>>
    /\ LET p == turns[Len(turns)]
           t == position[p] + 1
       IN  /\ should_buy[p] \in {"picky", "cautious"}
           /\ owner[t] = None
           /\ amount[p] >= price[t]

\* C16: after setup(), whatever amounts and positions the players had, every
\* player of the roster has amount 300 and position 0, players holds the
\* players of the roster the constructor was given, each once,
\* active_players holds the same players in the same order, and winner is
\* None.
C16_SetupResetsAndShuffles ==
    pc = "while"
        => /\ \A p \in DOMAIN should_buy : amount[p] = INITIAL_AMOUNT /\ position[p] = 0
           /\ Len(lists[players]) = Len(should_buy)
           /\ \A p \in DOMAIN should_buy : Count(lists[players], p) = 1
           /\ active_players # None
           /\ lists[active_players] = lists[players]
           /\ winner = None

\* setup() found a player with another amount and a player on another
\* position, and left the players in another order than the roster's.
C16_Witness ==
    /\ pc = "while"
    /\ \E p \in DOMAIN should_buy : setup_found.amount[p] # INITIAL_AMOUNT
    /\ \E p \in DOMAIN should_buy : setup_found.position[p] # 0
    /\ lists[players] # [i \in DOMAIN should_buy |-> i]
    /\ \A p \in DOMAIN should_buy : amount[p] = INITIAL_AMOUNT /\ position[p] = 0

C17_RoundWithinTheLimit == round <= MAX_ROUNDS

C17_OneRoundPerPass ==
    /\ round' # round => round' = round + 1
    /\ (pc = "for" /\ pc' = "while") <=> round' = round + 1

C17_Finished == pc = "done" /\ winner \in DOMAIN should_buy

\* C17: a run of a game of two or more players terminates: round goes up by
\* exactly one with every pass of the while loop and by nothing else, never
\* exceeds MAX_ROUNDS, and the run reaches the state in which finish() has
\* set winner to a player.
C17_RunTerminatesWithAWinner ==
    /\ []C17_RoundWithinTheLimit
    /\ [][C17_OneRoundPerPass]_vars
    /\ <>C17_Finished

\* A run that the round limit ended, with a winner.
C17_Witness ==
    /\ pc = "done"
    /\ winner \in DOMAIN should_buy
    /\ round = MAX_ROUNDS
    /\ timeout

\* C20: once one player is left in active_players, no turn is taken in that
\* game, not by the player left either: from then on no step changes the
\* turns taken or any amount, position or owner, so the winner finish() names
\* has the amount and the position it had when its last opponent was removed.
C20_NoTurnOnceOnePlayerIsLeft ==
    [][(active_players # None /\ Len(lists[active_players]) = 1)
          => /\ turns' = turns
             /\ amount' = amount
             /\ position' = position
             /\ owner' = owner
             /\ lists'[active_players'] = lists[active_players]]_vars

\* The game is over with one player left, which was active when the last
\* round began and took no turn in it.
C20_Witness ==
    /\ pc = "done"
    /\ Len(lists[active_players]) = 1
    /\ winner \in Range(round_start)
    /\ winner \notin Range(turns)

\* C21: in a game started on a board without owners, at every turn boundary
\* from setup() on the owner of every owned property is in active_players,
\* and active_players is not empty: finish() finds a player to name.
C21_OwnersAreActiveAndSomePlayerIsLeft ==
    pc \in {"while", "for", "finish", "done"}
        => /\ \A t \in DOMAIN owner : owner[t] # None => owner[t] \in Active
           /\ Len(lists[active_players]) >= 1
           /\ pc = "done" => winner \in Active

\* The player of the last turn went bankrupt on a property of a player that
\* is still active, and owns nothing any more.
C21_Witness ==
    /\ pc = "for"
    /\ turns # <<>>
    /\ LET p == turns[Len(turns)]
       IN  /\ amount[p] < 0
           /\ p \notin Active
           /\ owner[position[p] + 1] \in Active
           /\ \A t \in DOMAIN owner : owner[t] # p

\* C22: a turn that ends on a property of the player that takes it leaves
\* the player the amount it holds after the move (the rent is paid to
\* itself), and no turn lowers the amount of a player other than the one
\* that takes it.
C22_SelfRentIsNothingAndOthersNeverLose ==
    [][(pc = "for" /\ Len(turns') = Len(turns) + 1)
          => LET p == turns'[Len(turns')]
                 t == position'[p] + 1
             IN  /\ owner[t] = p
                       => \E d \in DiceFaces :
                             LET moved == MovePlayer(position[p], amount[p], d)
                             IN  /\ moved.position = position'[p]
                                 /\ amount'[p] = moved.amount
                 /\ \A q \in DOMAIN amount \ {p} : amount'[q] >= amount[q]]_vars

\* The last turn ended on a property its player owned already, and still owns.
C22_Witness ==
    /\ pc = "for"
    /\ turns # <<>>
    /\ found_owner = turns[Len(turns)]
    /\ owner[position[found_owner] + 1] = found_owner

\* C23: every price of MIN_PROP_PRICE..MAX_PROP_PRICE gives a rent of at most
\* 25, and in every state of a game on a board of such prices no property is
\* owned by a picky player (the strategy the tests call demanding).
C23_PickyOwnsNothingOnDefaultPrices ==
    /\ \A pr \in MIN_PROP_PRICE..MAX_PROP_PRICE : Rent(pr) <= 25
    /\ \A t \in DOMAIN price :
          /\ price[t] \in MIN_PROP_PRICE..MAX_PROP_PRICE
          /\ owner[t] # None => should_buy[owner[t]] # "picky"

\* The picky player ended its turn on the dearest property, unowned and
\* within its means, and the property is still unowned.
C23_Witness ==
    /\ pc = "for"
    /\ turns # <<>>
    /\ LET p == turns[Len(turns)]
           t == position[p] + 1
       IN  /\ should_buy[p] = "picky"
           /\ found_owner = None
           /\ price[t] = MAX_PROP_PRICE
           /\ amount[p] >= price[t]
           /\ owner[t] = None

====
